---- MODULE Spec2Model ----
(***************************************************************************)
(* A model of website_image_crawler.py: the depth-bounded breadth-first    *)
(* crawl of WebsiteImageCrawler (crawl, _fetch_url, _extract_links),       *)
(* the batched download manager (download_images) and the per-asset        *)
(* download with its file-name collision loop (download_image).            *)
(*                                                                         *)
(* The specifications of the module share its variables:                   *)
(*   Spec      one call of crawl on a freshly constructed crawler;         *)
(*   SpecLive  Spec with the crawl's steps taken when they can be;         *)
(*   SpecDeep  Spec's crawl called with one more level of depth;           *)
(*   SpecReuse crawl called again on the same crawler object;              *)
(*   SpecDL    one call of download_images (sequential and pooled path),   *)
(*             and the merge of its result by crawl;                       *)
(*   SpecFile  download_image executions running concurrently on worker    *)
(*             threads of one batch, sharing the output directory;         *)
(*   SpecSeq   the same executions made one after the other, none          *)
(*             starting before the one before it has returned;             *)
(*   SpecImage one call of download_image, statement by statement:         *)
(*             probe, format filter, body request, file name, collision    *)
(*             loop, write, retry;                                         *)
(*   SpecAsset SpecImage's call made as crawl makes it: for a URL that     *)
(*             _extract_images kept, with the crawler's format filter.     *)
(***************************************************************************)
EXTENDS Integers, Sequences, FiniteSets, TLC

(***************************************************************************)
(* Bounds of the model.                                                    *)
(***************************************************************************)
NPaths == 3          \* distinct page paths on the crawled host
NImages == 2         \* distinct asset URLs a page may reference
MaxLinks == 2        \* anchors per page
MaxImagesArg == 1    \* largest max_images tried
MaxDepthArg == 1     \* largest depth argument tried
NWorkers == 2        \* download_image executions running at the same time
MaxFaults == 1       \* requests or writes that raise, over all workers
MaxUrls == 6         \* longest list handed to download_images
MaxCrawlCalls == 2   \* calls of crawl made on one crawler object
MaxDelay == 4        \* largest self.delay tried, in seconds

\* max_retries=3, the default of WebsiteImageCrawler.__init__
max_retries == 3

VARIABLES
    \* ---- configuration and arguments (fixed by Init)
    max_images,        \* self.max_images
    depth,             \* crawl's depth argument
    \* ---- crawler state (WebsiteImageCrawler.__init__)
    visited_urls,      \* self.visited_urls      : set of URLs
    image_urls,        \* self.image_urls        : set of asset URLs
    pages_by_depth,    \* self.pages_by_depth    : depth -> list of URLs
    downloaded_images, \* self.downloaded_images : list, one entry per saved asset
    \* ---- locals of crawl and its position
    pc,                \* position of the crawl call
    start_url,         \* crawl's start_url: the argument, then its normalised form
    current_depth,     \* loop variable of the depth loop
    page_i,            \* 1-based index of page_url in current_pages
    attempt,           \* loop variable of _fetch_url's retry loop; 0 outside it
    html_content,      \* what _fetch_url returned for the current page; "None"
                       \* again once the page is done with (the local is dead)
    images_to_download,\* list handed to download_images
    page_images,       \* what _extract_images returned for the current page; {}
                       \* again once crawl has used it (the local is dead)
    new_images,        \* the candidates that were not in image_urls; {} again
                       \* once the batch is cut from it
    \* ---- history (not program state)
    fetch_calls,       \* URL -> number of calls of _fetch_url(URL)
    fetch_sleeps,      \* backoff sleeps of the last _fetch_url call; 0 again
                       \* once crawl has looked at what the call returned
    since_fetch,       \* "none" before the first page fetch, "fetched" from a
                       \* page fetch until time.sleep(self.delay), then "slept"
    dispatch_count,    \* asset URL -> times it was handed to download_images
    fetch_order,       \* the URLs passed to _fetch_url, in the order of the calls
    crawl_calls,       \* calls of crawl made on the crawler so far
    links_skipped,     \* the links of the page at hand that were in visited_urls
                       \* already; {} again once the page is done with
    start_arg,         \* crawl's start_url as it was passed; the normalised
                       \* URL again once the first page is done with
    \* ---- SpecFile: download_image on the worker threads of one batch
    job,               \* worker -> the locals and position of its download_image
    disk,              \* save_dir: path -> the file at that path
    faults,            \* history: exceptions raised so far in the workers
    \* ---- SpecDL: one call of download_images
    urls,              \* the urls argument
    dl_pc,             \* position of the call
    batch_start,       \* i, the index of the batch's first URL (0-based)
    cursor,            \* 1-based index in urls of the URL or future at hand
    call_state,        \* index in urls -> state of its download_image call
    downloaded,        \* the local list downloaded
    successful_in_batch,
    delay,             \* self.delay, in seconds
    pauses,            \* history: the time.sleep durations of the call
    \* ---- SpecImage: one call of download_image
    image_call,        \* the locals and position of the download_image call
    save_dir,          \* self.save_dir: path -> what the file at that path holds
    results,           \* history: what the call returned, << >> before it returns
    sleeps,            \* history: the time.sleep durations of the call
    body_requests      \* history: the requests of line 613 made by the call

crawlVars == << max_images, depth, visited_urls, image_urls,
                pages_by_depth, downloaded_images, pc, start_url, current_depth,
                page_i, attempt, html_content, images_to_download, page_images,
                new_images,
                fetch_calls, fetch_sleeps, since_fetch, dispatch_count,
                fetch_order, crawl_calls, links_skipped, start_arg >>

fileVars == << job, disk, faults >>

dlVars == << urls, dl_pc, batch_start, cursor, call_state, downloaded,
            successful_in_batch, delay, pauses >>

imageVars == << image_call, save_dir, results, sleeps, body_requests >>

vars == << crawlVars, fileVars, dlVars, imageVars >>

\* the state of the other specifications, which a step of one leaves alone
outsideCrawl == << fileVars, dlVars, imageVars >>

(***************************************************************************)
(* URLs.  A URL is its scheme prefix, its authority (netloc) and its path; *)
(* scheme "" stands for a string that starts with neither http:// nor      *)
(* https://.                                                               *)
(***************************************************************************)
Url(s, h, p) == [scheme |-> s, netloc |-> h, path |-> p]

Host == "a.test"
OtherHost == "b.test"

\* str.startswith(('http://', 'https://'))
StartsWithHttp(u) == u.scheme \in {"http", "https"}

\* pages of the crawled host
SitePages == { Url("https", Host, p) : p \in 1..NPaths }

\* an href that urljoin cannot parse ("http://[bad": ValueError)
BadHref == Url("https", "[", 0)

\* absolute URLs an anchor of a page may resolve to: pages of the site, a
\* page of another host, a link to the site's host that is not http(s)
AnchorPool == SitePages \cup { Url("https", OtherHost, 1), Url("ftp", Host, 1) }

Images == 1..NImages

SeqsUpTo(S, n) == UNION { [1..k -> S] : k \in 0..n }

Range(s) == { s[i] : i \in DOMAIN s }

\* A page body is an input.  Its parts are drawn where crawl first reads
\* them: the asset URLs _extract_images finds in it, and its anchors in
\* document order.
BodyImages == SUBSET Images
BodyAnchors == SeqsUpTo(AnchorPool, MaxLinks) \cup { << BadHref >> }

\* crawl's start_url arguments
StartArgs == { Url("", Host, 1), Url("https", Host, 1) }

\* the start URL used as it was passed, whatever it starts with
NormalizeStartNever(u) == u

\* start_url = 'https://' + start_url when it has no http(s) prefix
NormalizeStart(u) == IF StartsWithHttp(u) THEN u ELSE [u EXCEPT !.scheme = "https"]

(***************************************************************************)
(* Pure helpers of the crawl.                                              *)
(***************************************************************************)
\* the elements of a set of integers in increasing order
RECURSIVE SortedSeq(_)
SortedSeq(S) ==
    IF S = {} THEN << >>
    ELSE LET m == CHOOSE x \in S : \A y \in S : x <= y
         IN  << m >> \o SortedSeq(S \ {m})

\* _extract_links raises when urljoin cannot parse an href
ExtractLinksRaises(anchors) == BadHref \in Range(anchors)

\* _extract_links without the comparison of line 486
ExtractLinksAnyHost(anchors, base_url) ==
    LET Keep(a) == StartsWithHttp(a)
    IN  SelectSeq(anchors, Keep)

\* _extract_links: the http(s) anchors whose netloc equals the page's, in
\* document order, duplicates kept (links is a list)
ExtractLinks(anchors, base_url) ==
    LET Keep(a) == StartsWithHttp(a) /\ a.netloc = base_url.netloc
    IN  SelectSeq(anchors, Keep)

\* new_links without the test against visited_urls
NewLinksUnfiltered(links, visited) == links

\* new_links = [link for link in links if link not in self.visited_urls]
NewLinks(links, visited) ==
    LET Fresh(l) == l \notin visited
    IN  SelectSeq(links, Fresh)

\* the lists new_images[:remaining] can be, fresh being the new assets:
\* new_images is built by iterating a set, so any remaining-sized part of
\* it may come first
Truncations(fresh, remaining) ==
    LET n == IF Cardinality(fresh) < remaining
             THEN Cardinality(fresh) ELSE remaining
    IN  { SortedSeq(S) : S \in { T \in SUBSET fresh : Cardinality(T) = n } }

\* what download_images(urls) may return: the saved path of every URL whose
\* download succeeded, in input order; an entry is written as its source URL
DownloadImagesResults(to_download) ==
    { LET Ok(u) == u \in S IN SelectSeq(to_download, Ok) : S \in SUBSET Range(to_download) }

\* current_pages = self.pages_by_depth.get(current_depth, [])
CurrentPages ==
    IF current_depth \in DOMAIN pages_by_depth THEN pages_by_depth[current_depth]
    ELSE << >>

\* the page loop walking current_pages from its end
page_urlReversed == CurrentPages[Len(CurrentPages) + 1 - page_i]

\* for page_url in current_pages (line 141)
page_url == CurrentPages[page_i]

NewImagesUnfiltered(candidates) == candidates

\* new_images = [img for img in page_images if img not in self.image_urls]
NewImages(candidates) == candidates \ image_urls

\* line 152 left out: image_urls keeps what it held
ImageUrlsStale(candidates) == image_urls

\* self.image_urls.update(page_images) (line 152)
ImageUrlsUpdated(candidates) == image_urls \cup candidates

RemainingOffByOne == max_images - Len(downloaded_images) + 1

\* remaining = self.max_images - len(self.downloaded_images)
Remaining == max_images - Len(downloaded_images)

\* len(self.downloaded_images) >= self.max_images
CapReached == Len(downloaded_images) >= max_images

BelowMaxDepthInclusive == current_depth <= depth

BelowMaxDepthAlways == TRUE

\* if current_depth < depth  (lines 137 and 172)
BelowMaxDepth == current_depth < depth

\* no download_image is running on a worker thread
FileIdle ==
    /\ job = << >>
    /\ disk = << >>
    /\ faults = 0

\* download_images is not being called
DLIdle ==
    /\ urls = << >>
    /\ dl_pc = "idle"
    /\ batch_start = 0
    /\ cursor = 0
    /\ call_state = << >>
    /\ downloaded = << >>
    /\ successful_in_batch = 0
    /\ delay = 0
    /\ pauses = << >>

\* download_image of SpecImage is not being called
ImageIdle ==
    /\ image_call = << >>
    /\ save_dir = << >>
    /\ results = << >>
    /\ sleeps = << >>
    /\ body_requests = 0

(***************************************************************************)
(* Spec: one call of crawl(start_arg, depth) on a fresh crawler.           *)
(***************************************************************************)
Init ==
    /\ max_images \in 0..MaxImagesArg
    /\ depth \in 0..MaxDepthArg
    /\ visited_urls = {}
    /\ image_urls = {}
    /\ pages_by_depth = << >>
    /\ downloaded_images = << >>
    /\ pc = "crawl"
    /\ start_arg \in StartArgs
    /\ start_url = start_arg
    /\ current_depth = 0
    /\ page_i = 0
    /\ attempt = 0
    /\ html_content = "None"
    /\ images_to_download = << >>
    /\ page_images = {}
    /\ new_images = {}
    /\ fetch_calls = [u \in SitePages |-> 0]
    /\ fetch_sleeps = 0
    /\ since_fetch = "none"
    /\ dispatch_count = [img \in Images |-> 0]
    /\ fetch_order = << >>
    /\ crawl_calls = 0
    /\ links_skipped = {}
    /\ FileIdle
    /\ DLIdle
    /\ ImageIdle

\* SpecDeep: crawl called with a depth one beyond the largest Spec tries, so
\* that pages found by the crawl enqueue links themselves, and with the
\* largest cap, which lets the crawl go on longest
InitDeep ==
    /\ max_images = MaxImagesArg
    /\ depth = MaxDepthArg + 1
    /\ visited_urls = {}
    /\ image_urls = {}
    /\ pages_by_depth = << >>
    /\ downloaded_images = << >>
    /\ pc = "crawl"
    /\ start_arg \in StartArgs
    /\ start_url = start_arg
    /\ current_depth = 0
    /\ page_i = 0
    /\ attempt = 0
    /\ html_content = "None"
    /\ images_to_download = << >>
    /\ page_images = {}
    /\ new_images = {}
    /\ fetch_calls = [u \in SitePages |-> 0]
    /\ fetch_sleeps = 0
    /\ since_fetch = "none"
    /\ dispatch_count = [img \in Images |-> 0]
    /\ fetch_order = << >>
    /\ crawl_calls = 0
    /\ links_skipped = {}
    /\ FileIdle
    /\ DLIdle
    /\ ImageIdle

config == << max_images, depth >>

\* lines 117-123: normalise the start URL, reset the frontier, mark visited
CrawlStart ==
    /\ pc = "crawl"
    /\ start_url' = NormalizeStart(start_url)
    /\ pages_by_depth' = (0 :> << start_url' >>)
    /\ visited_urls' = visited_urls \cup { start_url' }
    /\ current_depth' = 0
    /\ pc' = "depth"
    /\ crawl_calls' = crawl_calls + 1
    /\ UNCHANGED << config, outsideCrawl, image_urls, downloaded_images, page_i, attempt,
                    html_content, images_to_download, fetch_calls,
                    page_images, new_images, fetch_sleeps, since_fetch, dispatch_count,
                    fetch_order, links_skipped, start_arg >>

\* the depth loop without the break of lines 132-134: an empty level is
\* passed over
DepthBeginNoBreak ==
    /\ pc = "depth"
    /\ IF current_depth > depth
       THEN /\ pc' = "done"
            /\ UNCHANGED << pages_by_depth, page_i, current_depth >>
       ELSE IF CurrentPages = << >>
       THEN /\ current_depth' = current_depth + 1
            /\ UNCHANGED << pc, pages_by_depth, page_i >>
       ELSE /\ pages_by_depth' =
                  IF BelowMaxDepth
                  THEN [d \in DOMAIN pages_by_depth \cup {current_depth + 1} |->
                          IF d = current_depth + 1 THEN << >> ELSE pages_by_depth[d]]
                  ELSE pages_by_depth
            /\ page_i' = 1
            /\ pc' = "page"
            /\ UNCHANGED current_depth
    /\ UNCHANGED << config, outsideCrawl, visited_urls, image_urls, downloaded_images, start_url,
                    attempt, html_content, images_to_download,
                    fetch_calls,
                    page_images, new_images, fetch_sleeps, since_fetch, dispatch_count,
                    fetch_order, crawl_calls, links_skipped, start_arg >>

\* lines 126-139: the head of the depth loop
DepthBegin ==
    /\ pc = "depth"
    /\ IF current_depth > depth \/ CurrentPages = << >>
       THEN /\ pc' = "done"
            /\ UNCHANGED << pages_by_depth, page_i >>
       ELSE /\ pages_by_depth' =
                  IF BelowMaxDepth
                  THEN [d \in DOMAIN pages_by_depth \cup {current_depth + 1} |->
                          IF d = current_depth + 1 THEN << >> ELSE pages_by_depth[d]]
                  ELSE pages_by_depth
            /\ page_i' = 1
            /\ pc' = "page"
    /\ UNCHANGED << config, outsideCrawl, visited_urls, image_urls, downloaded_images, start_url,
                    current_depth, attempt, html_content, images_to_download,
                    fetch_calls,
                    page_images, new_images, fetch_sleeps, since_fetch, dispatch_count,
                    fetch_order, crawl_calls, links_skipped, start_arg >>

\* line 141: the head of the page loop; line 145: the call of _fetch_url
NextPage ==
    /\ pc = "page"
    /\ IF page_i <= Len(CurrentPages)
       THEN /\ pc' = "fetch"
            /\ attempt' = 1
            /\ fetch_calls' = [fetch_calls EXCEPT ![page_url] = @ + 1]
            /\ since_fetch' = "fetched"
            /\ fetch_order' = Append(fetch_order, page_url)
            /\ UNCHANGED current_depth
       ELSE /\ pc' = "depth"
            /\ current_depth' = current_depth + 1
            /\ UNCHANGED << attempt, fetch_calls, since_fetch, fetch_order >>
    /\ UNCHANGED << config, outsideCrawl, visited_urls, image_urls, pages_by_depth,
                    downloaded_images, start_url, page_i, html_content,
                    images_to_download, page_images, new_images, fetch_sleeps,
                    dispatch_count, crawl_calls, links_skipped, start_arg >>

\* lines 215-255: an attempt of _fetch_url returns response.text, a page
\* body or the empty string
FetchOk ==
    /\ pc = "fetch"
    /\ attempt <= max_retries
    /\ html_content' \in {"text", ""}
    /\ attempt' = 0
    /\ pc' = "fetched"
    /\ UNCHANGED << config, outsideCrawl, visited_urls, image_urls, pages_by_depth,
                    downloaded_images, start_url, current_depth, page_i,
                    images_to_download, fetch_calls,
                    page_images, new_images, fetch_sleeps, since_fetch, dispatch_count,
                    fetch_order, crawl_calls, links_skipped, start_arg >>

\* the except clause with the backoff sleep outside the test of line 274
FetchRequestErrorSleepsLast ==
    /\ pc = "fetch"
    /\ attempt <= max_retries
    /\ fetch_sleeps' = fetch_sleeps + 1
    /\ IF attempt < max_retries
       THEN /\ attempt' = attempt + 1
            /\ UNCHANGED << pc, html_content >>
       ELSE /\ html_content' = "None"
            /\ attempt' = 0
            /\ pc' = "fetched"
    /\ UNCHANGED << config, outsideCrawl, visited_urls, image_urls, pages_by_depth,
                    downloaded_images, start_url, current_depth, page_i,
                    images_to_download, fetch_calls,
                    page_images, new_images, since_fetch, dispatch_count,
                    fetch_order, crawl_calls, links_skipped, start_arg >>

\* lines 272-280: an attempt raises requests.RequestException
FetchRequestError ==
    /\ pc = "fetch"
    /\ attempt <= max_retries
    /\ IF attempt < max_retries
       THEN /\ fetch_sleeps' = fetch_sleeps + 1     \* time.sleep(backoff_time)
            /\ attempt' = attempt + 1
            /\ UNCHANGED << pc, html_content >>
       ELSE /\ html_content' = "None"       \* return None
            /\ attempt' = 0
            /\ pc' = "fetched"
            /\ UNCHANGED fetch_sleeps
    /\ UNCHANGED << config, outsideCrawl, visited_urls, image_urls, pages_by_depth,
                    downloaded_images, start_url, current_depth, page_i,
                    images_to_download, fetch_calls,
                    page_images, new_images, since_fetch, dispatch_count,
                    fetch_order, crawl_calls, links_skipped, start_arg >>

\* lines 215-272: an attempt raises an exception that is no RequestException;
\* neither _fetch_url nor crawl catches it
FetchOtherError ==
    /\ pc = "fetch"
    /\ attempt <= max_retries
    /\ pc' = "raised"
    /\ UNCHANGED << config, outsideCrawl, visited_urls, image_urls, pages_by_depth,
                    downloaded_images, start_url, current_depth, page_i, attempt,
                    html_content, images_to_download, fetch_calls,
                    page_images, new_images, fetch_sleeps, since_fetch, dispatch_count,
                    fetch_order, crawl_calls, links_skipped, start_arg >>

\* a failed page ends the depth level instead of being skipped
SkipPageBreak ==
    /\ pc = "fetched"
    /\ html_content \in {"None", ""}
    /\ current_depth' = current_depth + 1
    /\ html_content' = "None"
    /\ fetch_sleeps' = 0
    /\ start_arg' = start_url
    /\ pc' = "depth"
    /\ UNCHANGED << config, outsideCrawl, visited_urls, image_urls, pages_by_depth,
                    downloaded_images, start_url, page_i, attempt,
                    images_to_download, fetch_calls,
                    page_images, new_images, since_fetch, dispatch_count,
                    fetch_order, crawl_calls, links_skipped >>

\* lines 146-147: if not html_content: continue
SkipPage ==
    /\ pc = "fetched"
    /\ html_content \in {"None", ""}
    /\ page_i' = page_i + 1
    /\ html_content' = "None"
    /\ fetch_sleeps' = 0
    /\ start_arg' = start_url
    /\ pc' = "page"
    /\ UNCHANGED << config, outsideCrawl, visited_urls, image_urls, pages_by_depth,
                    downloaded_images, start_url, current_depth, attempt,
                    images_to_download, fetch_calls,
                    page_images, new_images, since_fetch, dispatch_count,
                    fetch_order, crawl_calls, links_skipped >>

\* lines 149-153: extract the assets, pick the new ones, record them all
ProcessImages ==
    /\ pc = "fetched"
    /\ html_content = "text"
    /\ \E candidates \in BodyImages :
          /\ page_images' = candidates
          /\ new_images' = NewImages(candidates)
          /\ image_urls' = ImageUrlsUpdated(candidates)
    /\ pc' = "images"
    /\ fetch_sleeps' = 0
    /\ UNCHANGED << config, outsideCrawl, visited_urls, pages_by_depth, downloaded_images,
                    start_url, current_depth, page_i, attempt, html_content,
                    images_to_download, fetch_calls, since_fetch, dispatch_count,
                    fetch_order, crawl_calls, links_skipped, start_arg >>

\* lines 155-161: below the cap, cut the new assets to the room that is left
DispatchImages ==
    /\ pc = "images"
    /\ IF new_images # {} /\ Len(downloaded_images) < max_images
       THEN /\ images_to_download' \in Truncations(new_images, Remaining)
            /\ pc' = "download"
       ELSE /\ images_to_download' = << >>
            /\ pc' = "links"
    /\ page_images' = {}
    /\ new_images' = {}
    /\ UNCHANGED << config, outsideCrawl, visited_urls, image_urls, pages_by_depth,
                    downloaded_images, start_url, current_depth, page_i, attempt,
                    html_content, fetch_calls, fetch_sleeps, since_fetch,
                    dispatch_count, fetch_order, crawl_calls, links_skipped, start_arg >>

\* lines 163-165: download the batch and merge what it returns
DownloadAndMerge ==
    /\ pc = "download"
    /\ \E new_downloads \in DownloadImagesResults(images_to_download) :
          downloaded_images' = downloaded_images \o new_downloads
    /\ dispatch_count' = [img \in Images |->
                            dispatch_count[img] +
                            Cardinality({ n \in DOMAIN images_to_download :
                                            images_to_download[n] = img })]
    /\ images_to_download' = << >>
    /\ pc' = "links"
    /\ UNCHANGED << config, outsideCrawl, visited_urls, image_urls, pages_by_depth, start_url,
                    current_depth, page_i, attempt, html_content, fetch_calls,
                    page_images, new_images, fetch_sleeps, since_fetch,
                    fetch_order, crawl_calls, links_skipped, start_arg >>

\* line 173 for every body the page may have: what _extract_links returns,
\* << BadHref >> standing for _extract_links raising
PageLinks ==
    { IF ExtractLinksRaises(anchors) THEN << BadHref >>
      ELSE ExtractLinks(anchors, page_url) :
        anchors \in BodyAnchors }

\* the new links enqueued without being marked visited
VisitedStale(new_links) == visited_urls

\* line 178: self.visited_urls.update(new_links)
VisitedUpdated(new_links) == visited_urls \cup Range(new_links)

\* lines 171-180: enqueue the page's new links at the next depth
ProcessLinks ==
    /\ pc = "links"
    /\ IF ~BelowMaxDepth
       THEN /\ pc' = "sleep"
            /\ UNCHANGED << pages_by_depth, visited_urls, links_skipped >>
       ELSE \E links \in PageLinks :
            IF links = << BadHref >>
            THEN /\ pc' = "raised"
                 /\ UNCHANGED << pages_by_depth, visited_urls, links_skipped >>
            ELSE LET new_links == NewLinks(links, visited_urls)
                 IN  /\ pages_by_depth' =
                           [pages_by_depth EXCEPT ![current_depth + 1] = @ \o new_links]
                     /\ visited_urls' = VisitedUpdated(new_links)
                     /\ links_skipped' = Range(links) \cap visited_urls
                     /\ pc' = "sleep"
    /\ UNCHANGED << config, outsideCrawl, image_urls, downloaded_images, start_url,
                    current_depth, page_i, attempt, html_content,
                    images_to_download, fetch_calls,
                    page_images, new_images, fetch_sleeps, since_fetch, dispatch_count,
                    fetch_order, crawl_calls, start_arg >>

\* the page loop without the cap check of lines 185-192
SleepNoCheck ==
    /\ pc = "sleep"
    /\ pc' = "page"
    /\ page_i' = page_i + 1
    /\ html_content' = "None"
    /\ since_fetch' = "slept"
    /\ links_skipped' = {}
    /\ start_arg' = start_url
    /\ UNCHANGED << config, outsideCrawl, visited_urls, image_urls, pages_by_depth,
                    downloaded_images, start_url, current_depth, attempt,
                    images_to_download, fetch_calls,
                    page_images, new_images, fetch_sleeps, dispatch_count,
                    fetch_order, crawl_calls >>

\* lines 182-192: the politeness delay, then the cap check that ends the crawl
SleepAndCheck ==
    /\ pc = "sleep"
    /\ IF CapReached
       THEN /\ pc' = "done"
            /\ UNCHANGED page_i
       ELSE /\ pc' = "page"
            /\ page_i' = page_i + 1
    /\ html_content' = "None"
    /\ since_fetch' = "slept"
    /\ links_skipped' = {}
    /\ start_arg' = start_url
    /\ UNCHANGED << config, outsideCrawl, visited_urls, image_urls, pages_by_depth,
                    downloaded_images, start_url, current_depth, attempt,
                    images_to_download, fetch_calls,
                    page_images, new_images, fetch_sleeps, dispatch_count,
                    fetch_order, crawl_calls >>

Next ==
    \/ CrawlStart
    \/ DepthBegin
    \/ NextPage
    \/ FetchOk
    \/ FetchRequestError
    \/ FetchOtherError
    \/ SkipPage
    \/ ProcessImages
    \/ DispatchImages
    \/ DownloadAndMerge
    \/ ProcessLinks
    \/ SleepAndCheck

Spec == Init /\ [][Next]_vars

SpecDeep == InitDeep /\ [][Next]_vars

\* crawl runs on one thread, and every call it makes returns or raises: a
\* step that can be taken is taken
SpecLive == Spec /\ WF_vars(Next)

(***************************************************************************)
(* SpecReuse: crawl called again on the crawler object once a call has     *)
(* returned.  __init__ is not run again: the attributes keep what the      *)
(* earlier call left in them.  The histories are per call and start anew.  *)
(***************************************************************************)
\* the caller: crawler.crawl(start_url, depth) after an earlier call returned
CrawlAgain ==
    /\ pc = "done"
    /\ crawl_calls < MaxCrawlCalls
    /\ start_arg' \in StartArgs
    /\ start_url' = start_arg'
    /\ depth' \in 0..MaxDepthArg
    /\ pc' = "crawl"
    /\ current_depth' = 0
    /\ page_i' = 0
    /\ fetch_calls' = [u \in SitePages |-> 0]
    /\ since_fetch' = "none"
    /\ dispatch_count' = [img \in Images |-> 0]
    /\ fetch_order' = << >>
    /\ UNCHANGED << max_images, outsideCrawl, visited_urls, image_urls, pages_by_depth,
                    downloaded_images, attempt, html_content, images_to_download,
                    page_images, new_images, fetch_sleeps, crawl_calls, links_skipped >>

NextReuse ==
    \/ Next
    \/ CrawlAgain

SpecReuse == Init /\ [][NextReuse]_vars

TypeOK ==
    /\ pc \in {"crawl", "depth", "page", "fetch", "fetched", "images", "download", "links",
               "sleep", "done", "raised"}
    /\ visited_urls \subseteq SitePages
    /\ image_urls \subseteq Images

(***************************************************************************)
(* Strings, as download_image and its helpers use them.                    *)
(***************************************************************************)
CharAt(s, i) == SubSeq(s, i, i)

\* s.startswith(prefix)
StartsWith(s, prefix) == Len(s) >= Len(prefix) /\ SubSeq(s, 1, Len(prefix)) = prefix

\* part in s
Contains(s, part) ==
    \E i \in 1..(Len(s) - Len(part) + 1) : SubSeq(s, i, i + Len(part) - 1) = part

\* s.rfind(c) + 1: the place of the last c in s, 0 when there is none
LastIndexOf(s, c) ==
    LET I == { i \in 1..Len(s) : CharAt(s, i) = c }
    IN  IF I = {} THEN 0 ELSE CHOOSE i \in I : \A j \in I : j <= i

UpperLetters == "ABCDEFGHIJKLMNOPQRSTUVWXYZ"
LowerLetters == "abcdefghijklmnopqrstuvwxyz"

LowerChar(c) ==
    LET I == { i \in 1..Len(UpperLetters) : CharAt(UpperLetters, i) = c }
    IN  IF I = {} THEN c ELSE CharAt(LowerLetters, CHOOSE i \in I : TRUE)

\* s.lower()
RECURSIVE Lower(_)
Lower(s) ==
    IF Len(s) = 0 THEN ""
    ELSE LowerChar(CharAt(s, 1)) \o Lower(SubSeq(s, 2, Len(s)))

\* every character of s that is in chars replaced by new (new may be "")
RECURSIVE ReplaceChars(_, _, _)
ReplaceChars(s, chars, new) ==
    IF Len(s) = 0 THEN ""
    ELSE (IF CharAt(s, 1) \in chars THEN new ELSE CharAt(s, 1))
         \o ReplaceChars(SubSeq(s, 2, Len(s)), chars, new)

\* s.strip(chars)
Strip(s, chars) ==
    LET Keep == { i \in 1..Len(s) : CharAt(s, i) \notin chars }
    IN  IF Keep = {} THEN ""
        ELSE SubSeq(s, CHOOSE i \in Keep : \A j \in Keep : i <= j,
                       CHOOSE i \in Keep : \A j \in Keep : j <= i)

\* os.path.splitext(p): << root, ext >>; ext starts at the last dot of the
\* last path component, unless only dots come before it in that component
Splitext(p) ==
    LET sep == LastIndexOf(p, "/")
        dot == LastIndexOf(p, ".")
    IN  IF dot > sep /\ \E i \in (sep + 1)..(dot - 1) : CharAt(p, i) # "."
        THEN << SubSeq(p, 1, dot - 1), SubSeq(p, dot, Len(p)) >>
        ELSE << p, "" >>

\* os.path.basename(p)
Basename(p) == SubSeq(p, LastIndexOf(p, "/") + 1, Len(p))

\* urllib.parse.unquote(s), for the one escape the model's URLs use
RECURSIVE Unquote(_)
Unquote(s) ==
    IF Len(s) = 0 THEN ""
    ELSE IF StartsWith(s, "%20") THEN " " \o Unquote(SubSeq(s, 4, Len(s)))
    ELSE CharAt(s, 1) \o Unquote(SubSeq(s, 2, Len(s)))

(***************************************************************************)
(* Pure helpers of download_image.                                         *)
(***************************************************************************)
\* the extensions _get_extension_from_url takes for valid (line 732)
ValidUrlExtensions == {"jpg", "jpeg", "png", "gif", "webp", "bmp", "svg", "tiff"}

\* _get_extension_from_url (lines 718-736); urlparse(url).path is u.path
GetExtensionFromUrl(u) ==
    LET extension == ReplaceChars(Lower(Splitext(u.path)[2]), {"."}, "")
    IN  IF extension \in ValidUrlExtensions THEN extension ELSE "jpg"

\* mime_map of _get_extension_from_content_type (lines 685-694)
mime_map ==
    ("image/jpeg" :> "jpg") @@ ("image/jpg" :> "jpg") @@ ("image/png" :> "png") @@
    ("image/gif" :> "gif") @@ ("image/bmp" :> "bmp") @@ ("image/webp" :> "webp") @@
    ("image/tiff" :> "tiff") @@ ("image/svg+xml" :> "svg")

\* _get_extension_from_content_type (lines 674-716)
GetExtensionFromContentType(content_type) ==
    LET ct == Lower(content_type)
        Prefixes == { mime \in DOMAIN mime_map : StartsWith(ct, mime) }
    IN  IF ct \in DOMAIN mime_map THEN mime_map[ct]
        ELSE IF Prefixes # {} THEN mime_map[CHOOSE mime \in Prefixes : TRUE]
        ELSE IF Contains(ct, "jpeg") \/ Contains(ct, "jpg") THEN "jpg"
        ELSE IF Contains(ct, "png") THEN "png"
        ELSE IF Contains(ct, "gif") THEN "gif"
        ELSE IF Contains(ct, "webp") THEN "webp"
        ELSE "jpg"

\* lines 594: url_ext in formats
UrlFormatMatched(u, formats) == Lower(GetExtensionFromUrl(u)) \in Range(formats)

\* lines 597-604: the loop that sets content_format_matched
ContentFormatMatched(formats, content_type) ==
    \E i \in DOMAIN formats :
        LET fmt == Lower(formats[i])
        IN  \/ fmt \in {"jpg", "jpeg"} /\ Contains(content_type, "jpeg")
            \/ Contains(content_type, fmt)

\* lines 585-610: TRUE when the probe's content type lets the download go on
ProbeAccepts(u, formats, content_type) ==
    /\ StartsWith(content_type, "image/")
    /\ formats # << >> =>
          UrlFormatMatched(u, formats) \/ ContentFormatMatched(formats, content_type)

\* lines 616-633: the extension the file is saved with
ResolveExtension(u, formats, content_type) ==
    LET content_type_extension == GetExtensionFromContentType(content_type)
        url_extension == GetExtensionFromUrl(u)
    IN  IF formats # << >> /\ url_extension \in Range(formats) THEN url_extension
        ELSE IF content_type_extension # "" THEN content_type_extension
        ELSE url_extension

\* lines 626-628: the format-mismatch warning is logged
MismatchWarned(u, formats, content_type) ==
    /\ formats # << >>
    /\ GetExtensionFromUrl(u) \in Range(formats)
    /\ GetExtensionFromContentType(content_type) # ""
    /\ GetExtensionFromContentType(content_type) # GetExtensionFromUrl(u)

\* _get_filename (lines 738-771); disposition_name is the file name the
\* regular expression finds in Content-Disposition, "" when there is none;
\* url_hash is str(abs(hash(url)) % 10000)
GetFilename(u, disposition_name, url_hash) ==
    LET filename == Unquote(Basename(u.path))
    IN  IF disposition_name # "" THEN disposition_name
        ELSE IF filename # "" /\ Contains(filename, ".") THEN filename
        ELSE "image_" \o url_hash \o "." \o GetExtensionFromUrl(u)

\* invalid_chars of _sanitize_filename (line 783)
invalid_chars == {"<", ">", ":", "\"", "/", "\\", "|", "?", "*"}

\* the longest file name _sanitize_filename leaves alone (line 788)
MaxFilenameLen == 150

\* what is kept of the name part of a longer one (line 790)
KeptNameLen == 140

\* _sanitize_filename (lines 773-801); the name made up for an empty result
\* holds a time stamp and a random number
SanitizeFilename(filename) ==
    LET replaced == ReplaceChars(filename, invalid_chars, "_")
        cut == IF Len(replaced) > MaxFilenameLen
               THEN SubSeq(Splitext(replaced)[1], 1, KeptNameLen) \o Splitext(replaced)[2]
               ELSE replaced
        stripped == Strip(cut, {".", " "})
    IN  IF stripped = "" THEN "image_0_1000.jpg" ELSE stripped

\* lines 635-644: the file name the asset is saved under
ResolveFilename(u, formats, content_type, disposition_name, url_hash) ==
    LET extension == ResolveExtension(u, formats, content_type)
        filename == GetFilename(u, disposition_name, url_hash)
    IN  SanitizeFilename(IF extension # ""
                         THEN Splitext(filename)[1] \o "." \o extension
                         ELSE filename)

\* self.save_dir
SaveDirName == "out"

\* os.path.join(self.save_dir, filename)
SavePath(filename) == SaveDirName \o "/" \o filename

\* lines 651-654: the path tried for a counter
SuffixedSavePath(filename, counter) ==
    SavePath(Splitext(filename)[1] \o "_" \o ToString(counter) \o Splitext(filename)[2])

(***************************************************************************)
(* SpecFile: download_image running on worker threads of one batch of      *)
(* download_images (ThreadPoolExecutor, lines 528-529).  The URLs of the   *)
(* jobs differ but resolve to the same file name, "photo.jpg".             *)
(***************************************************************************)
Workers == 1..NWorkers

\* retries = 2 (line 571)
retries == 2

\* os.path.join(self.save_dir, filename)
FirstPath == SavePath("photo.jpg")

\* os.path.join(self.save_dir, f"{original_base_name}_{counter}{ext}")
SuffixedPath(counter) == SuffixedSavePath("photo.jpg", counter)

\* os.path.exists(save_path)
Exists(path) == path \in DOMAIN disk

NewJob == [pc |-> "request", attempt |-> 0, counter |-> 0, save_path |-> FirstPath,
           result |-> << >>]

\* a file that was in save_dir before the batch started
OldFile == [pre |-> TRUE, writers |-> {}, data |-> "old"]

\* open(save_path, 'wb') by worker w: creates the file or truncates it
Opened(path, w) ==
    IF Exists(path)
    THEN [disk EXCEPT ![path] = [@ EXCEPT !.writers = @ \cup {w}, !.data = "empty"]]
    ELSE [q \in DOMAIN disk \cup {path} |->
            IF q = path THEN [pre |-> FALSE, writers |-> {w}, data |-> "empty"]
            ELSE disk[q]]

\* the crawl is not running
CrawlIdle ==
    /\ max_images = 0
    /\ depth = 0
    /\ visited_urls = {}
    /\ image_urls = {}
    /\ pages_by_depth = << >>
    /\ downloaded_images = << >>
    /\ pc = "idle"
    /\ start_url = Url("https", Host, 1)
    /\ current_depth = 0
    /\ page_i = 0
    /\ attempt = 0
    /\ html_content = "None"
    /\ images_to_download = << >>
    /\ page_images = {}
    /\ new_images = {}
    /\ fetch_calls = [u \in SitePages |-> 0]
    /\ fetch_sleeps = 0
    /\ since_fetch = "none"
    /\ dispatch_count = [img \in Images |-> 0]
    /\ fetch_order = << >>
    /\ crawl_calls = 0
    /\ links_skipped = {}
    /\ start_arg = Url("https", Host, 1)

InitFile ==
    /\ CrawlIdle
    /\ DLIdle
    /\ ImageIdle
    /\ job = [w \in Workers |-> NewJob]
    /\ disk \in { << >>, (FirstPath :> OldFile) }
    /\ faults = 0

\* download_image has returned: its locals are gone, its result is kept
Returned(result) == [NewJob EXCEPT !.pc = "done", !.result = result]

\* lines 666-672: the except clause of an attempt
Retry(j) ==
    IF j.attempt < retries
    THEN [NewJob EXCEPT !.attempt = j.attempt + 1]   \* after time.sleep(2 ** attempt)
    ELSE Returned(<< >>)                              \* return None

\* lines 575-650: the probe and the body request of an attempt; the name is
\* resolved and the collision loop starts at save_dir/filename
FRequestOk(w) ==
    /\ job[w].pc = "request"
    /\ job' = [job EXCEPT ![w] = [@ EXCEPT !.pc = "exists", !.counter = 1,
                                             !.save_path = FirstPath]]
    /\ UNCHANGED << crawlVars, dlVars, imageVars, disk, faults >>

\* lines 586-588, 608-610: the probe's content type is rejected: return None
FRequestRejected(w) ==
    /\ job[w].pc = "request"
    /\ job' = [job EXCEPT ![w] = Returned(<< >>)]
    /\ UNCHANGED << crawlVars, dlVars, imageVars, disk, faults >>

\* lines 581, 613-614: a request of the attempt raises
FRequestError(w) ==
    /\ job[w].pc = "request"
    /\ faults < MaxFaults
    /\ faults' = faults + 1
    /\ job' = [job EXCEPT ![w] = Retry(@)]
    /\ UNCHANGED << crawlVars, dlVars, imageVars, disk >>

\* the collision loop as a single if: the first suffixed path is taken
\* without a second look
FExistsOnce(w) ==
    /\ job[w].pc = "exists"
    /\ LET j == job[w]
       IN  job' = [job EXCEPT ![w] =
                     IF Exists(j.save_path)
                     THEN [j EXCEPT !.save_path = SuffixedPath(j.counter),
                                    !.counter = j.counter + 1,
                                    !.pc = "open"]
                     ELSE [j EXCEPT !.pc = "open"]]
    /\ UNCHANGED << crawlVars, dlVars, imageVars, disk, faults >>

\* lines 652-655: one evaluation of the loop condition os.path.exists
FExists(w) ==
    /\ job[w].pc = "exists"
    /\ LET j == job[w]
       IN  job' = [job EXCEPT ![w] =
                     IF Exists(j.save_path)
                     THEN [j EXCEPT !.save_path = SuffixedPath(j.counter),
                                    !.counter = j.counter + 1]
                     ELSE [j EXCEPT !.pc = "open"]]
    /\ UNCHANGED << crawlVars, dlVars, imageVars, disk, faults >>

\* line 658: open(save_path, 'wb')
FOpen(w) ==
    /\ job[w].pc = "open"
    /\ disk' = Opened(job[w].save_path, w)
    /\ job' = [job EXCEPT ![w] = [@ EXCEPT !.pc = "write"]]
    /\ UNCHANGED << crawlVars, dlVars, imageVars, faults >>

\* lines 659-664: every chunk is written, the file is closed, the path returned
FWriteOk(w) ==
    /\ job[w].pc = "write"
    /\ disk' = [disk EXCEPT ![job[w].save_path] = [@ EXCEPT !.data = "full"]]
    /\ job' = [job EXCEPT ![w] = Returned(<< job[w].save_path >>)]
    /\ UNCHANGED << crawlVars, dlVars, imageVars, faults >>

\* lines 659-660, 666-672: iter_content or write raises part-way; the file
\* stays as it is and the attempt ends in the except clause
FWriteError(w) ==
    /\ job[w].pc = "write"
    /\ faults < MaxFaults
    /\ faults' = faults + 1
    /\ disk' = [disk EXCEPT ![job[w].save_path] = [@ EXCEPT !.data = "partial"]]
    /\ job' = [job EXCEPT ![w] = Retry(@)]
    /\ UNCHANGED << crawlVars, dlVars, imageVars >>

NextFile ==
    \E w \in Workers :
        \/ FRequestOk(w)
        \/ FRequestRejected(w)
        \/ FRequestError(w)
        \/ FExists(w)
        \/ FOpen(w)
        \/ FWriteOk(w)
        \/ FWriteError(w)

SpecFile == InitFile /\ [][NextFile]_vars

\* lines 509-515: the sequential loop of download_images calls download_image
\* for one URL after the other
NextSeq ==
    \E w \in Workers :
        /\ \A v \in Workers : v < w => job[v].pc = "done"
        /\ \/ FRequestOk(w)
           \/ FRequestRejected(w)
           \/ FRequestError(w)
           \/ FExists(w)
           \/ FOpen(w)
           \/ FWriteOk(w)
           \/ FWriteError(w)

SpecSeq == InitFile /\ [][NextSeq]_vars

(***************************************************************************)
(* Properties of concurrent download_image executions (under SpecFile).    *)
(***************************************************************************)
Saved == { w \in Workers : job[w].pc = "done" /\ job[w].result # << >> }

\* C4: downloads of one batch that resolve to the same file name end with
\* pairwise distinct save paths, and no download opens for writing a path
\* that another download opened or that held a file before the batch.
\* (Stated as the claim states it; the code violates it.)
C4_CollisionFree ==
    /\ \A v, w \in Saved : v # w => job[v].result # job[w].result
    /\ \A q \in DOMAIN disk :
          /\ disk[q].pre => disk[q].writers = {}
          /\ Cardinality(disk[q].writers) <= 1

(***************************************************************************)
(* Properties of download_image executions made one after the other        *)
(* (checked under SpecSeq).                                                *)
(***************************************************************************)
\* C17: when downloads complete one after the other, a download whose file
\* name photo.jpg is taken opens photo_j.jpg for the smallest j >= 1 whose
\* path is free (photo.jpg itself when that is free), and opening it
\* leaves every file already on disk as it is.
C17_OpenStep ==
    \A w \in Workers :
        job[w].pc = "open" =>
            /\ ~Exists(job[w].save_path)
            /\ IF ~Exists(SavePath("photo.jpg"))
               THEN job[w].save_path = SavePath("photo.jpg")
               ELSE \E n \in 1..Cardinality(DOMAIN disk) :
                       /\ job[w].save_path = SavePath("photo_" \o ToString(n) \o ".jpg")
                       /\ \A m \in 1..(n - 1) :
                             Exists(SavePath("photo_" \o ToString(m) \o ".jpg"))
            /\ \A path \in DOMAIN disk : disk'[path] = disk[path]

C17_SmallestFreeSuffix == [][C17_OpenStep]_vars

\* two downloads named photo.jpg have been saved one after the other: the
\* first as photo.jpg, the second as photo_1.jpg, the first file complete
C17_Witness ==
    /\ job[1].pc = "done" /\ job[1].result = << SavePath("photo.jpg") >>
    /\ job[2].pc = "done" /\ job[2].result = << SavePath("photo_1.jpg") >>
    /\ disk[SavePath("photo.jpg")] = [pre |-> FALSE, writers |-> {1}, data |-> "full"]

(***************************************************************************)
(* SpecDL: one call of download_images(urls), and the step of crawl that  *)
(* extends downloaded_images with its result.  A download_image call is    *)
(* taken by its outcome: it returns a path ("ok"), returns None ("none")   *)
(* or raises ("raised"); a URL of urls carries the outcomes its server     *)
(* can give.  An entry of downloaded is written as the index of its URL    *)
(* in urls.                                                                *)
(***************************************************************************)
\* if len(urls) <= 5 (line 506)
SequentialLimit == 5

\* batch_size = min(10, len(urls)) (line 519)
BatchCap == 10

\* ThreadPoolExecutor(max_workers=5) (line 528)
max_workers == 5

Min(a, b) == IF a < b THEN a ELSE b

batch_size == Min(BatchCap, Len(urls))

\* the indices in urls of batch = urls[i:i + batch_size]
BatchIndices == (batch_start + 1)..Min(batch_start + batch_size, Len(urls))

Outcomes == {"ok", "none", "raised"}

Running == { k \in DOMAIN call_state : call_state[k] = "running" }

\* A URL of the list is written as what its server lets download_image end
\* in: served is the set of outcomes a call for it can have.
Asset(k, served) == [id |-> k, served |-> served]

\* lists of up to MaxUrls URLs, any outcome for each
ShortLists == { [k \in 1..n |-> Asset(k, Outcomes)] : n \in 0..MaxUrls }

\* min(3.0, ...) (line 548)
PauseCap == 3

\* success_rate < 0.3 (line 547), 0.3 as a fraction
LowRateNum == 3
LowRateDen == 10

\* lists one URL longer than a batch: the first good URLs of the first batch
\* are served, the rest of it is not; any outcome for the URL of the second
\* batch.  Either all of the first batch is served or just the 30% of it
\* that line 547 asks for; result timeouts make every smaller count of
\* collected successes happen.
LongLists ==
    { [k \in 1..(BatchCap + 1) |->
          Asset(k, IF k > BatchCap THEN Outcomes
                   ELSE IF k <= good THEN {"ok"} ELSE {"none"})] :
        good \in {LowRateNum, BatchCap} }

\* the pause with a success rate of exactly 30% taken for a low one
PauseLowInclusive(successful, batch_len) ==
    IF successful * LowRateDen <= LowRateNum * batch_len
    THEN Min(PauseCap, delay * 2)
    ELSE delay

\* lines 546-552: the pause after a batch of batch_len URLs of which
\* successful were collected
Pause(successful, batch_len) ==
    IF successful * LowRateDen < LowRateNum * batch_len
    THEN Min(PauseCap, delay * 2)
    ELSE delay

InitDL ==
    /\ CrawlIdle
    /\ FileIdle
    /\ ImageIdle
    /\ urls \in ShortLists \cup LongLists
    /\ dl_pc = "call"
    /\ batch_start = 0
    /\ cursor = 0
    /\ call_state = [k \in DOMAIN urls |-> "idle"]
    /\ downloaded = << >>
    /\ successful_in_batch = 0
    /\ delay \in 0..MaxDelay
    /\ pauses = << >>

\* executor.submit for every URL of the batch (line 529)
Submitted == [k \in DOMAIN urls |->
                IF k \in BatchIndices THEN "pending" ELSE call_state[k]]

\* lines 501-529: the empty list, the choice of the path, the first batch
DLBegin ==
    /\ dl_pc = "call"
    /\ IF urls = << >>
       THEN /\ dl_pc' = "done"
            /\ UNCHANGED << cursor, call_state >>
       ELSE IF Len(urls) <= SequentialLimit
       THEN /\ dl_pc' = "sequential"
            /\ cursor' = 1
            /\ UNCHANGED call_state
       ELSE /\ dl_pc' = "collect"
            /\ cursor' = batch_start + 1
            /\ call_state' = Submitted
    /\ UNCHANGED << crawlVars, fileVars, imageVars, urls, delay, pauses, batch_start, downloaded,
                    successful_in_batch >>

\* the sequential loop without its except clause: a raising download_image
\* ends the call
DLSequentialStepAbort ==
    /\ dl_pc = "sequential"
    /\ cursor <= Len(urls)
    /\ \E outcome \in urls[cursor].served :
          /\ call_state' = [call_state EXCEPT ![cursor] = outcome]
          /\ downloaded' = IF outcome = "ok" THEN Append(downloaded, cursor)
                           ELSE downloaded
          /\ dl_pc' = IF outcome = "raised" THEN "done" ELSE dl_pc
    /\ cursor' = cursor + 1
    /\ UNCHANGED << crawlVars, fileVars, imageVars, urls, delay, pauses, batch_start, successful_in_batch >>

\* lines 509-515: one round of the sequential loop
DLSequentialStep ==
    /\ dl_pc = "sequential"
    /\ cursor <= Len(urls)
    /\ \E outcome \in urls[cursor].served :
          /\ call_state' = [call_state EXCEPT ![cursor] = outcome]
          /\ downloaded' = IF outcome = "ok" THEN Append(downloaded, cursor)
                           ELSE downloaded
    /\ cursor' = cursor + 1
    /\ UNCHANGED << crawlVars, fileVars, imageVars, urls, delay, pauses, dl_pc, batch_start,
                    successful_in_batch >>

\* line 516: return downloaded
DLSequentialReturn ==
    /\ dl_pc = "sequential"
    /\ cursor > Len(urls)
    /\ dl_pc' = "done"
    /\ UNCHANGED << crawlVars, fileVars, imageVars, urls, delay, pauses, batch_start, cursor, call_state,
                    downloaded, successful_in_batch >>

\* a pool that starts a thread for every queued call
WorkerStartUnbounded(k) ==
    /\ call_state[k] = "pending"
    /\ \A m \in DOMAIN call_state : m < k => call_state[m] # "pending"
    /\ call_state' = [call_state EXCEPT ![k] = "running"]
    /\ UNCHANGED << crawlVars, fileVars, imageVars, urls, delay, pauses, dl_pc, batch_start, cursor,
                    downloaded, successful_in_batch >>

\* a pool thread takes the oldest queued call when fewer than max_workers run
WorkerStart(k) ==
    /\ call_state[k] = "pending"
    /\ \A m \in DOMAIN call_state : m < k => call_state[m] # "pending"
    /\ Cardinality(Running) < max_workers
    /\ call_state' = [call_state EXCEPT ![k] = "running"]
    /\ UNCHANGED << crawlVars, fileVars, imageVars, urls, delay, pauses, dl_pc, batch_start, cursor,
                    downloaded, successful_in_batch >>

\* the download_image call of a pool thread ends
WorkerFinish(k) ==
    /\ call_state[k] = "running"
    /\ \E outcome \in urls[k].served : call_state' = [call_state EXCEPT ![k] = outcome]
    /\ UNCHANGED << crawlVars, fileVars, imageVars, urls, delay, pauses, dl_pc, batch_start, cursor,
                    downloaded, successful_in_batch >>

\* lines 530-538: future.result(timeout=30) of a finished future
DLCollect ==
    /\ dl_pc = "collect"
    /\ cursor \in BatchIndices
    /\ call_state[cursor] \in Outcomes
    /\ IF call_state[cursor] = "ok"
       THEN /\ downloaded' = Append(downloaded, cursor)
            /\ successful_in_batch' = successful_in_batch + 1
       ELSE UNCHANGED << downloaded, successful_in_batch >>
    /\ cursor' = cursor + 1
    /\ UNCHANGED << crawlVars, fileVars, imageVars, urls, delay, pauses, dl_pc, batch_start, call_state >>

\* lines 532, 536-538: future.result(timeout=30) raises TimeoutError for a
\* future that has not finished; the error is logged, the loop goes on
DLCollectTimeout ==
    /\ dl_pc = "collect"
    /\ cursor \in BatchIndices
    /\ call_state[cursor] \in {"pending", "running"}
    /\ cursor' = cursor + 1
    /\ UNCHANGED << crawlVars, fileVars, imageVars, urls, delay, pauses, dl_pc, batch_start, call_state,
                    downloaded, successful_in_batch >>

\* the end of a batch with a pool that is left without waiting for its
\* threads
DLBatchEndNoWait ==
    /\ dl_pc = "collect"
    /\ cursor \notin BatchIndices
    /\ IF batch_start + batch_size < Len(urls)
       THEN /\ pauses' = Append(pauses, Pause(successful_in_batch,
                                                  Cardinality(BatchIndices)))
            /\ batch_start' = batch_start + batch_size
            /\ cursor' = batch_start' + 1
            /\ call_state' = [k \in DOMAIN urls |->
                                IF k > batch_start' /\ k <= batch_start' + batch_size
                                THEN "pending" ELSE call_state[k]]
            /\ successful_in_batch' = 0
            /\ UNCHANGED dl_pc
       ELSE /\ dl_pc' = "done"
            /\ UNCHANGED << batch_start, cursor, call_state, successful_in_batch, pauses >>
    /\ UNCHANGED << crawlVars, fileVars, imageVars, urls, delay, downloaded >>

\* lines 528, 541-559: the with block ends once every call of the batch has
\* ended; then the pause and the next batch, or the return
DLBatchEnd ==
    /\ dl_pc = "collect"
    /\ cursor \notin BatchIndices
    /\ \A k \in BatchIndices : call_state[k] \in Outcomes
    /\ IF batch_start + batch_size < Len(urls)
       THEN /\ pauses' = Append(pauses, Pause(successful_in_batch,
                                                  Cardinality(BatchIndices)))
            /\ batch_start' = batch_start + batch_size
            /\ cursor' = batch_start' + 1
            /\ call_state' = [k \in DOMAIN urls |->
                                IF k > batch_start' /\ k <= batch_start' + batch_size
                                THEN "pending" ELSE call_state[k]]
            /\ successful_in_batch' = 0
            /\ UNCHANGED dl_pc
       ELSE /\ dl_pc' = "done"
            /\ UNCHANGED << batch_start, cursor, call_state, successful_in_batch, pauses >>
    /\ UNCHANGED << crawlVars, fileVars, imageVars, urls, delay, downloaded >>

\* lines 164-165 of crawl, the caller: download_images has returned and
\* self.downloaded_images.extend(new_downloads) runs
CrawlExtend ==
    /\ dl_pc = "done"
    /\ downloaded_images' = downloaded_images \o downloaded
    /\ dl_pc' = "returned"
    /\ UNCHANGED << config, visited_urls, image_urls, pages_by_depth, pc, start_url,
                    current_depth, page_i, attempt, html_content, images_to_download,
                    page_images, new_images, fetch_calls, fetch_sleeps, since_fetch,
                    dispatch_count, fetch_order, crawl_calls, links_skipped, start_arg,
                    fileVars, imageVars, urls, delay, pauses, batch_start, cursor,
                    call_state, downloaded, successful_in_batch >>

NextDL ==
    \/ DLBegin
    \/ DLSequentialStep
    \/ DLSequentialReturn
    \/ \E k \in DOMAIN call_state : WorkerStart(k)
    \/ \E k \in DOMAIN call_state : WorkerFinish(k)
    \/ DLCollect
    \/ DLCollectTimeout
    \/ DLBatchEnd
    \/ CrawlExtend

SpecDL == InitDL /\ [][NextDL]_vars

(***************************************************************************)
(* Properties of download_images (checked under SpecDL).                   *)
(***************************************************************************)
\* the URLs whose download_image call has ended without a saved path
Failed == { k \in DOMAIN call_state : call_state[k] \in {"none", "raised"} }

\* the URLs whose future was given up by a result timeout although the call
\* saved a file afterwards
TimedOut == { k \in DOMAIN call_state :
                /\ call_state[k] = "ok"
                /\ k \notin { downloaded[n] : n \in DOMAIN downloaded } }

\* C10: download_images returns only paths of downloads that succeeded, at
\* most one per input URL, and when it returns every URL of the input has
\* been attempted, whatever the other URLs did (rejection, exhausted
\* retries, exception, result timeout), on the sequential and on the
\* batched path.
C10_FailuresIsolated ==
    /\ \A n \in DOMAIN downloaded :
          /\ downloaded[n] \in DOMAIN urls
          /\ call_state[downloaded[n]] = "ok"
    /\ \A m, n \in DOMAIN downloaded : m # n => downloaded[m] # downloaded[n]
    /\ dl_pc = "done" => \A k \in DOMAIN urls : call_state[k] \in Outcomes

\* the batched path has returned; one call raised, one timed out, and a URL
\* after both is in the result
C10_Witness ==
    /\ dl_pc = "done"
    /\ Len(urls) > SequentialLimit
    /\ \E k \in Failed, t \in TimedOut, n \in DOMAIN downloaded :
          /\ call_state[k] = "raised"
          /\ downloaded[n] > k
          /\ downloaded[n] > t

\* the calls that are queued in the pool or running on one of its threads
InProgress == { k \in DOMAIN call_state : call_state[k] \in {"pending", "running"} }

\* C23: self.downloaded_images is extended only once the download_images
\* call has returned, by what it returned; and whenever control is back in
\* crawl (which alone fetches pages) no download_image of the call is
\* queued or running, also when the wait for a result had timed out.
C23_ReturnStep ==
    /\ downloaded_images' # downloaded_images =>
          /\ dl_pc = "done"
          /\ InProgress = {}
          /\ downloaded_images' = downloaded_images \o downloaded
    /\ dl_pc' \in {"done", "returned"} => InProgress' = {}
    /\ dl_pc \notin {"done", "returned"} =>
          downloaded_images' = << >> /\ UNCHANGED crawlVars

C23_MergeAfterWorkers == [][C23_ReturnStep]_vars

\* the call has returned and crawl has merged its result; the wait for one
\* of the results had timed out, and that download saved its file before
\* the pool was left
C23_Witness ==
    /\ dl_pc = "returned"
    /\ downloaded_images # << >>
    /\ TimedOut # {}

\* C28: between two batches the pause is the configured delay when at
\* least 30% of the batch just finished were collected as successes, and
\* twice the delay, at most 3 seconds, when fewer were; only a batch that
\* another batch follows is followed by a pause.
C28_PauseStep ==
    LET batch_len == Cardinality(BatchIndices)
        last_batch == batch_start + batch_len >= Len(urls)
    IN  /\ pauses' # pauses =>
              /\ ~last_batch
              /\ batch_start' = batch_start + batch_len
              /\ pauses' = Append(pauses,
                                  IF 100 * successful_in_batch >= 30 * batch_len
                                  THEN delay
                                  ELSE IF 2 * delay > 3 THEN 3 ELSE 2 * delay)
        /\ batch_start' # batch_start => Len(pauses') = Len(pauses) + 1
        /\ dl_pc = "collect" /\ dl_pc' = "done" => last_batch /\ pauses' = pauses

C28_BatchPause == [][C28_PauseStep]_vars

\* a first batch with exactly 3 of 10 collected successes was followed by
\* the plain delay
C28_Witness ==
    /\ batch_start = BatchCap
    /\ delay = MaxDelay
    /\ pauses = << delay >>
    /\ Len(downloaded) = LowRateNum
    /\ cursor = BatchCap + 1

\* C29: at most 5 executions of download_image are in progress at any
\* moment, a batch holds at most 10 URLs, and a batch starts only after
\* every worker of the batch before it has finished: the calls queued or
\* running are all of the batch at hand.
C29_BoundedPool ==
    /\ Cardinality(Running) <= 5
    /\ dl_pc = "collect" => Cardinality(BatchIndices) <= 10
    /\ dl_pc = "collect" => InProgress \subseteq BatchIndices
    /\ dl_pc # "collect" => InProgress = {}

\* the second batch is running; in the first, five calls ran at once and
\* the wait for a result timed out
C29_Witness ==
    /\ batch_start = BatchCap
    /\ call_state[BatchCap + 1] = "running"
    /\ \E t \in TimedOut : t <= BatchCap

(***************************************************************************)
(* SpecImage: one call of download_image(url, formats) into a save_dir     *)
(* that may hold files already.                                            *)
(***************************************************************************)
\* asset URLs handed to download_image
AssetPaths == {"/a/photo.jpg", "/b/photo.jpg", "/c/photo.png", "/d/photo",
               "/images/photo", "/img/%20.png"}
AssetUrls == { Url("https", Host, p) : p \in AssetPaths }

\* the formats argument: None (written << >>) or a list of formats
FormatFilters == { << >>, << "png" >>, << "jpg" >> }

\* values of the Content-Type header of a response; "" when it is missing
ContentTypes == {"image/jpeg", "image/webp", "image/x-icon", "text/html"}

\* status codes of the probe's response
ProbeStatuses == {200, 404}

\* file names found in the Content-Disposition header; "" when there is none
DispositionNames == {"", "a:b.gif"}

\* values of str(abs(hash(url)) % 10000)
UrlHashes == {"17"}

\* what save_dir holds before the first call
OldDirs == { << >>,
             (SavePath("photo.jpg") :> "old"),
             (SavePath("photo.jpg") :> "old") @@ (SavePath("photo_1.jpg") :> "old") }

\* no download_image is running
IdleCall == [pc |-> "idle", url |-> Url("", "", ""), formats |-> << >>, attempt |-> 0,
             content_type |-> "", filename |-> "", save_path |-> "", counter |-> 0,
             probe_status |-> 0]

\* lines 561-574: the locals at the start of an attempt
NewCall(u, formats) == [IdleCall EXCEPT !.pc = "probe", !.url = u, !.formats = formats]

InitImage ==
    /\ CrawlIdle
    /\ FileIdle
    /\ DLIdle
    /\ image_call = IdleCall
    /\ save_dir \in OldDirs
    /\ results = << >>
    /\ sleeps = << >>
    /\ body_requests = 0

\* return result
Return(result) ==
    /\ image_call' = IdleCall
    /\ results' = Append(results, result)

\* the except clause with the sleep outside the test of line 668
ExceptClauseSleepsAlways ==
    /\ sleeps' = Append(sleeps, 2 ^ image_call.attempt)
    /\ IF image_call.attempt < retries
       THEN /\ image_call' = [NewCall(image_call.url, image_call.formats)
                                 EXCEPT !.attempt = image_call.attempt + 1]
            /\ UNCHANGED results
       ELSE Return("None")

\* lines 666-672: the except clause of an attempt
ExceptClause ==
    /\ IF image_call.attempt < retries
       THEN /\ sleeps' = Append(sleeps, 2 ^ image_call.attempt)
            /\ image_call' = [NewCall(image_call.url, image_call.formats)
                                 EXCEPT !.attempt = image_call.attempt + 1]
            /\ UNCHANGED results
       ELSE /\ Return("None")
            /\ UNCHANGED sleeps

\* line 561: download_image(url, formats) is called
DIBegin ==
    /\ image_call.pc = "idle"
    /\ results = << >>
    /\ \E u \in AssetUrls, formats \in FormatFilters : image_call' = NewCall(u, formats)
    /\ sleeps' = << >>
    /\ body_requests' = 0
    /\ UNCHANGED << crawlVars, fileVars, dlVars, save_dir, results >>

\* lines 575-583: the probe answers (HEAD, or the GET of line 581 after a
\* failed HEAD) with some status, and its Content-Type header is read;
\* probe_status is head_response.status_code, 0 again once the checks of
\* the probe are done (nothing reads it)
DIProbe ==
    /\ image_call.pc = "probe"
    /\ \E ct \in ContentTypes, status \in ProbeStatuses :
          image_call' = [image_call EXCEPT !.pc = "check", !.content_type = Lower(ct),
                                           !.probe_status = status]
    /\ UNCHANGED << crawlVars, fileVars, dlVars, save_dir, results, sleeps, body_requests >>

\* the checks of the probe with a rejection handled like a failed request
DICheckRetriesRejection ==
    /\ image_call.pc = "check"
    /\ IF ProbeAccepts(image_call.url, image_call.formats, image_call.content_type)
       THEN /\ image_call' = [image_call EXCEPT !.pc = "body", !.probe_status = 0]
            /\ UNCHANGED << results, sleeps >>
       ELSE ExceptClause
    /\ UNCHANGED << crawlVars, fileVars, dlVars, save_dir, body_requests >>

\* lines 585-610: the probe's content type is checked against image/ and
\* against the format filter; a rejection returns None
DICheck ==
    /\ image_call.pc = "check"
    /\ IF ProbeAccepts(image_call.url, image_call.formats, image_call.content_type)
       THEN /\ image_call' = [image_call EXCEPT !.pc = "body", !.probe_status = 0]
            /\ UNCHANGED results
       ELSE Return("None")
    /\ UNCHANGED << crawlVars, fileVars, dlVars, save_dir, sleeps, body_requests >>

\* lines 577-583: HEAD raises and the GET of line 581 raises too
DIProbeError ==
    /\ image_call.pc = "probe"
    /\ ExceptClause
    /\ UNCHANGED << crawlVars, fileVars, dlVars, save_dir, body_requests >>

\* lines 613-651: the body request answers with a good status; extension,
\* file name and first save path are resolved
DIBody ==
    /\ image_call.pc = "body"
    /\ body_requests' = body_requests + 1
    /\ \E ct \in ContentTypes, disposition_name \in DispositionNames, url_hash \in UrlHashes :
          LET filename == ResolveFilename(image_call.url, image_call.formats, Lower(ct),
                                          disposition_name, url_hash)
          IN  image_call' = [image_call EXCEPT !.pc = "exists",
                                               !.content_type = Lower(ct),
                                               !.filename = filename,
                                               !.save_path = SavePath(filename),
                                               !.counter = 1]
    /\ UNCHANGED << crawlVars, fileVars, dlVars, save_dir, results, sleeps >>

\* lines 613-614: the body request raises, or raise_for_status does
DIBodyError ==
    /\ image_call.pc = "body"
    /\ body_requests' = body_requests + 1
    /\ ExceptClause
    /\ UNCHANGED << crawlVars, fileVars, dlVars, save_dir >>

\* the collision loop as a single if: the first suffixed path is taken
\* without a second look
DIExistsOnce ==
    /\ image_call.pc = "exists"
    /\ image_call' =
          IF image_call.save_path \in DOMAIN save_dir
          THEN [image_call EXCEPT !.save_path = SuffixedSavePath(image_call.filename,
                                                                 image_call.counter),
                                  !.counter = image_call.counter + 1,
                                  !.pc = "open"]
          ELSE [image_call EXCEPT !.pc = "open"]
    /\ UNCHANGED << crawlVars, fileVars, dlVars, save_dir, results, sleeps,
                    body_requests >>

\* lines 652-655: one evaluation of while os.path.exists(save_path)
DIExists ==
    /\ image_call.pc = "exists"
    /\ image_call' =
          IF image_call.save_path \in DOMAIN save_dir
          THEN [image_call EXCEPT !.save_path = SuffixedSavePath(image_call.filename,
                                                                 image_call.counter),
                                  !.counter = image_call.counter + 1]
          ELSE [image_call EXCEPT !.pc = "open"]
    /\ UNCHANGED << crawlVars, fileVars, dlVars, save_dir, results, sleeps,
                    body_requests >>

\* line 658: open(save_path, 'wb') creates the file, or empties the one there
DIOpen ==
    /\ image_call.pc = "open"
    /\ save_dir' = (image_call.save_path :> "empty") @@ save_dir
    /\ image_call' = [image_call EXCEPT !.pc = "write"]
    /\ UNCHANGED << crawlVars, fileVars, dlVars, results, sleeps, body_requests >>

\* lines 659-664: every chunk of the body is written (a body may have no
\* bytes), the file is closed and its path returned
DIWrite ==
    /\ image_call.pc = "write"
    /\ \E body \in {"empty", "full"} :
          save_dir' = [save_dir EXCEPT ![image_call.save_path] = body]
    /\ Return(image_call.save_path)
    /\ UNCHANGED << crawlVars, fileVars, dlVars, sleeps, body_requests >>

\* lines 659-660, 666-672: iter_content or write raises before the body is
\* complete; the file keeps what was written so far
DIWriteError ==
    /\ image_call.pc = "write"
    /\ save_dir' = [save_dir EXCEPT ![image_call.save_path] = "partial"]
    /\ ExceptClause
    /\ UNCHANGED << crawlVars, fileVars, dlVars, body_requests >>

NextImage ==
    \/ DIBegin
    \/ DIProbe
    \/ DICheck
    \/ DIProbeError
    \/ DIBody
    \/ DIBodyError
    \/ DIExists
    \/ DIOpen
    \/ DIWrite
    \/ DIWriteError

SpecImage == InitImage /\ [][NextImage]_vars

(***************************************************************************)
(* Properties of one download_image call (checked under SpecImage).        *)
(***************************************************************************)
\* the probe's content type is one download_image rejects for good
ProbeRejected ==
    /\ image_call.pc = "check"
    /\ ~ProbeAccepts(image_call.url, image_call.formats, image_call.content_type)

\* C11: a permanent rejection ends download_image at once.  When the probed
\* content type is not an image type, or a filter is set that neither the
\* URL extension nor the content type matches, the next step returns None:
\* no body request is made, no file is touched, no attempt is added and
\* nothing is slept.
C11_RejectStep ==
    ProbeRejected =>
        /\ image_call' = IdleCall
        /\ results' = << "None" >>
        /\ UNCHANGED << save_dir, sleeps, body_requests >>

C11_RejectionIsFinal == [][C11_RejectStep]_vars

\* a call has returned None on its first attempt, after a probe that answered
C11_Witness ==
    /\ results = << "None" >>
    /\ sleeps = << >>
    /\ body_requests = 0

\* C12: download_image makes at most 3 attempts for one URL.  A failed
\* attempt number k (k = 0, 1) is followed by a sleep of 2^k seconds (1,
\* then 2) and the next attempt; the third failed attempt returns None
\* without a sleep.  Nothing else sleeps or starts an attempt.
C12_AttemptStep ==
    /\ image_call'.attempt # image_call.attempt /\ image_call'.pc # "idle" =>
          /\ image_call.attempt \in {0, 1}
          /\ image_call'.attempt = image_call.attempt + 1
          /\ image_call'.pc = "probe"
          /\ sleeps' = Append(sleeps, 2 ^ image_call.attempt)
    /\ sleeps' # sleeps /\ image_call.pc # "idle" =>
          image_call'.attempt = image_call.attempt + 1
    /\ image_call.pc \in {"probe", "body", "write"} /\ results' = << "None" >> =>
          /\ image_call.attempt = 2
          /\ sleeps = << 1, 2 >>
          /\ sleeps' = sleeps

C12_RetriesAndBackoff == [][C12_AttemptStep]_vars

\* three attempts have failed and the call has returned None
C12_Witness ==
    /\ results = << "None" >>
    /\ sleeps = << 1, 2 >>

\* C13: when streaming a body to its path fails part-way, the partial file
\* is deleted before the retry or the return, so no partially written file
\* is left in save_dir.  (Stated as the claim states it; the code violates it.)
C13_NoPartialFile == \A path \in DOMAIN save_dir : save_dir[path] # "partial"

\* C14: a download whose body has no bytes is rejected: download_image does
\* not return the path of a file that holds nothing.  (Stated as the claim
\* states it; the code violates it.)
C14_NoEmptyDownload ==
    \A n \in DOMAIN results :
        results[n] # "None" => save_dir[results[n]] # "empty"

\* the URL's own file-extension suffix, lower-cased, "" when it has none
UrlSuffix(u) == ReplaceChars(Lower(Splitext(u.path)[2]), {"."}, "")

\* C15: with a format filter, a URL passes the probe only if its own
\* file-extension suffix is an allowed format or the probed content type
\* matches an allowed format.  (Stated as the claim states it; the code
\* violates it.)
C15_FilterAccepts ==
    image_call.pc = "body" /\ image_call.formats # << >> =>
        \/ UrlSuffix(image_call.url) \in Range(image_call.formats)
        \/ ContentFormatMatched(image_call.formats, image_call.content_type)

\* the extension the claim's order of precedence gives
ClaimedExtension(u, formats, content_type) ==
    IF formats # << >> /\ UrlSuffix(u) \in Range(formats) THEN UrlSuffix(u)
    ELSE IF content_type \in DOMAIN mime_map THEN mime_map[content_type]
    ELSE IF UrlSuffix(u) # "" THEN UrlSuffix(u)
    ELSE "jpg"

\* C16: the save extension is the URL extension when the filter contains it,
\* otherwise the extension of the declared content type, otherwise the URL
\* extension, otherwise a fixed default.  (Stated as the claim states it;
\* the code violates it.)
C16_ExtensionPrecedence ==
    image_call.pc = "exists" =>
        Splitext(image_call.filename)[2] =
            "." \o ClaimedExtension(image_call.url, image_call.formats,
                                    image_call.content_type)

\* C27: a non-2xx response is a fetch error, for the probe as for the
\* body: a probe that answered with a status outside 2xx neither lets the
\* URL on to the body request nor ends the call by a rejection that is not
\* retried; the attempt fails as a failed request does (backoff and next
\* attempt, None after the last).  (Stated as the claim states it; the
\* code violates it.)
C27_ProbeStatusStep ==
    image_call.pc = "check" /\ image_call.probe_status \notin 200..299 =>
        /\ image_call'.pc # "body"
        /\ IF image_call.attempt < retries
           THEN /\ image_call'.pc = "probe"
                /\ image_call'.attempt = image_call.attempt + 1
                /\ sleeps' = Append(sleeps, 2 ^ image_call.attempt)
           ELSE results' = << "None" >>

C27_Non2xxIsFetchError == [][C27_ProbeStatusStep]_vars

(***************************************************************************)
(* Properties of the crawl (checked under Spec).                           *)
(***************************************************************************)
Levels == DOMAIN pages_by_depth

\* the positions (depth, index) of the frontier
FrontierSlots ==
    UNION { { << d, i >> : i \in DOMAIN pages_by_depth[d] } : d \in Levels }

\* a merge has happened and filled the cap
CapReachedByMerge == CapReached /\ Len(downloaded_images) > 0

\* C1: in a single crawl on a fresh crawler, len(downloaded_images) never
\* exceeds max_images, in every state and so in the returned result.
C1_DownloadedWithinCap == Len(downloaded_images) <= max_images

\* C1 witness: a page offered more new assets than the cap left room for,
\* the batch was merged and filled the cap exactly.
C1_Witness ==
    /\ pc = "links"
    /\ max_images > 0
    /\ Len(downloaded_images) = max_images
    /\ Cardinality(image_urls) > max_images

\* C2: a URL appears in pages_by_depth at most once across all depths.
\* (Stated as the claim states it; the code violates it.)
C2_UrlOnceInFrontier ==
    \A s, t \in FrontierSlots :
        s # t => pages_by_depth[s[1]][s[2]] # pages_by_depth[t[1]][t[2]]

\* C3: each page URL is passed to _fetch_url at most once during a crawl.
\* (Stated as the claim states it; the code violates it.)
C3_FetchedAtMostOnce == \A u \in SitePages : fetch_calls[u] <= 1

\* C5: no frontier level beyond depth exists and no page beyond depth is
\* fetched; every visited URL sits in a level d <= depth; and a URL enters
\* level d only as the start URL (d = 0) or while the links of a page of
\* level d - 1 are processed, so a chain of d <= depth links leads to it.
C5_LevelsBounded ==
    /\ Levels \subseteq 0..depth
    /\ pc \in {"fetch", "fetched", "images", "download", "links", "sleep"} =>
          current_depth <= depth /\ page_i \in DOMAIN CurrentPages
    /\ visited_urls \subseteq UNION { Range(pages_by_depth[d]) : d \in Levels }

C5_EnqueueStep ==
    /\ C5_LevelsBounded'
    /\ \A d \in Levels' :
          LET old == IF d \in Levels THEN Range(pages_by_depth[d]) ELSE {}
          IN  \A u \in Range(pages_by_depth'[d]) \ old :
                 \/ d = 0 /\ pc = "crawl" /\ u = start_url'
                 \/ /\ d >= 1
                    /\ d <= depth
                    /\ pc = "links"
                    /\ current_depth = d - 1
                    /\ page_i \in DOMAIN pages_by_depth[d - 1]

C5_DepthBounded == [][C5_EnqueueStep]_vars

\* C5 witness: a crawl of depth >= 1 has ended with the deepest allowed
\* level populated and fetched.
C5_Witness ==
    /\ pc = "done"
    /\ depth >= 1
    /\ depth \in Levels
    /\ pages_by_depth[depth] # << >>
    /\ \E u \in Range(pages_by_depth[depth]) : fetch_calls[u] > 0

\* C6: when _fetch_url has failed on all attempts (it returned None), the
\* page changes neither image_urls nor downloaded_images nor any frontier,
\* and the page loop moves to the next page of the same depth, which is
\* fetched next if there is one.
C6_FailedPageStep ==
    /\ (pc = "fetched" /\ html_content = "None") =>
          /\ image_urls' = image_urls
          /\ downloaded_images' = downloaded_images
          /\ pages_by_depth' = pages_by_depth
          /\ visited_urls' = visited_urls
          /\ current_depth' = current_depth
          /\ page_i' = page_i + 1
          /\ pc' = "page"
    /\ (pc = "page" /\ page_i <= Len(CurrentPages)) =>
          /\ pc' = "fetch"
          /\ current_depth' = current_depth
          /\ fetch_calls'[page_url] = fetch_calls[page_url] + 1

C6_FailedPageSkipped == [][C6_FailedPageStep]_vars

\* C6 witness: a page of depth 1 has failed all its attempts and another
\* page follows it in the same depth.
C6_Witness ==
    /\ pc = "fetched"
    /\ html_content = "None"
    /\ current_depth = 1
    /\ page_i < Len(CurrentPages)

\* C7: crawl never ends by propagating an error.
\* (Stated as the claim states it; the code violates it.)
C7_NeverRaises == pc # "raised"

\* C8: once a merge has filled the cap, the crawl is past its last fetch and
\* its last dispatch: it only finishes the current page (links, delay) and
\* returns; no page is fetched and no download is dispatched any more.
C8_StopsAtCap ==
    CapReachedByMerge =>
        /\ pc \in {"links", "sleep", "done", "raised"}
        /\ images_to_download = << >>

\* C8 witness: the crawl returned at the cap while a page of the current
\* depth was still unfetched.
C8_Witness ==
    /\ pc = "done"
    /\ CapReachedByMerge
    /\ page_i < Len(CurrentPages)
    /\ fetch_calls[CurrentPages[page_i + 1]] = 0

\* C9: with depth = 0 only the start page is fetched, level 1 of the
\* frontier is never created, and the result's visited_pages is {start_url}.
C9_DepthZero ==
    depth = 0 =>
        /\ Levels \subseteq {0}
        /\ \A u \in SitePages : fetch_calls[u] > 0 => u = start_url
        /\ pc = "done" => visited_urls = { start_url }

\* C9 witness: a crawl with depth = 0 has fetched its start page and ended.
C9_Witness ==
    /\ depth = 0
    /\ pc = "done"
    /\ fetch_calls[start_url] = 1
    /\ image_urls # {}

\* C18: between any two consecutive page fetches of a crawl the politeness
\* delay elapses, whether the earlier fetch succeeded or failed: no page
\* fetch starts while the fetch before it has not been followed by
\* time.sleep(self.delay).  (Stated as the claim states it; the code
\* violates it.)
C18_FetchStartStep == pc = "page" /\ pc' = "fetch" => since_fetch # "fetched"

C18_DelayBetweenFetches == [][C18_FetchStartStep]_vars

\* C19: _fetch_url makes at most max_retries attempts for one URL; an
\* attempt that succeeds returns its body at once; a failed attempt that is
\* not the last is followed by one backoff sleep and the next attempt; the
\* last failed attempt returns None without a sleep, so None is returned
\* only after max_retries failed attempts.
C19_FetchStep ==
    pc = "fetch" =>
        /\ attempt \in 1..max_retries
        /\ fetch_sleeps = attempt - 1
        /\ pc' = "fetch" /\ attempt' # attempt =>
              /\ attempt < max_retries
              /\ attempt' = attempt + 1
              /\ fetch_sleeps' = fetch_sleeps + 1
        /\ pc' = "fetched" => fetch_sleeps' = fetch_sleeps
        /\ pc' = "fetched" /\ html_content' = "None" => attempt = max_retries

C19_FetchRetries == [][C19_FetchStep]_vars

\* _fetch_url has returned None after max_retries attempts and
\* max_retries - 1 backoff sleeps
C19_Witness ==
    /\ pc = "fetched"
    /\ html_content = "None"
    /\ fetch_sleeps = max_retries - 1

\* C20: during one crawl an asset URL is handed to download_images at most
\* once: what is dispatched was not in image_urls before its page, and every
\* candidate of a page, dispatched or not, is in image_urls once the page's
\* images are processed.
C20_DispatchedOnce ==
    /\ \A img \in Images : dispatch_count[img] <= 1
    /\ \A img \in Images : dispatch_count[img] > 0 => img \in image_urls
    /\ page_images \subseteq image_urls
    /\ new_images \subseteq page_images
    /\ \A img \in new_images \cup Range(images_to_download) : dispatch_count[img] = 0

\* a page's candidates hold an asset that an earlier page had dispatched;
\* it is not among the new ones
C20_Witness ==
    /\ pc = "images"
    /\ \E img \in page_images \ new_images : dispatch_count[img] = 1

\* the frontier read level by level: levels 0..d one after the other, each
\* in list order
RECURSIVE FrontierUpTo(_)
FrontierUpTo(d) ==
    IF d < 0 THEN << >>
    ELSE FrontierUpTo(d - 1) \o (IF d \in Levels THEN pages_by_depth[d] ELSE << >>)

\* C21: the source URL of every entry of downloaded_images is in image_urls,
\* in every state of a crawl, and the entries being of different assets,
\* total_images_found = len(image_urls) >= len(downloaded_images).
C21_DownloadedWereFound ==
    /\ Range(downloaded_images) \subseteq image_urls
    /\ Range(images_to_download) \subseteq image_urls
    /\ Cardinality(image_urls) >= Len(downloaded_images)

\* a crawl has returned downloads, and found an asset it did not download
C21_Witness ==
    /\ pc = "done"
    /\ downloaded_images # << >>
    /\ image_urls \ Range(downloaded_images) # {}

\* C22: the pages are fetched in the order of the frontier read level by
\* level: within a level in list (discovery) order, and a page of level
\* d + 1 only after every page of level d has had its turn.  The calls of
\* _fetch_url made so far are a prefix of that reading, also while level
\* current_depth + 1 is still growing.
C22_FifoByLevel ==
    LET frontier == FrontierUpTo(depth)
    IN  /\ Len(fetch_order) <= Len(frontier)
        /\ fetch_order = SubSeq(frontier, 1, Len(fetch_order))
        /\ pc \in {"fetch", "fetched", "images", "download", "links", "sleep"} =>
              Len(fetch_order) = Len(FrontierUpTo(current_depth - 1)) + page_i

\* a crawl has ended after fetching the start page and two different pages
\* of level 1, the second of them after the first had failed or been done
C22_Witness ==
    /\ pc = "done"
    /\ Len(fetch_order) >= 3
    /\ Len(pages_by_depth[0]) = 1
    /\ fetch_order[2] # fetch_order[3]
    /\ fetch_order[3] = pages_by_depth[1][2]

\* C24: every call of crawl starts from a fresh state: once lines 117-123
\* have run, visited_urls = {start_url}, image_urls and downloaded_images
\* are empty and the frontier is {0: [start_url]}, also when crawl was
\* called before on the same object.  (Stated as the claim states it; the
\* code violates it.)
C24_StartStep ==
    pc = "crawl" /\ pc' = "depth" =>
        /\ visited_urls' = { start_url' }
        /\ image_urls' = {}
        /\ downloaded_images' = << >>
        /\ pages_by_depth' = (0 :> << start_url' >>)

C24_FreshState == [][C24_StartStep]_vars

\* the URLs of the frontier, all levels
FrontierUrls == UNION { Range(pages_by_depth[d]) : d \in Levels }

\* C25: every link extracted from a page is http(s) and has the netloc of
\* the page it was found on, so every URL of the frontier and of
\* visited_urls has the netloc of the normalised start URL.
C25_LinkStep ==
    /\ pages_by_depth' # pages_by_depth \/ visited_urls' # visited_urls =>
          \A u \in visited_urls' \cup FrontierUrls' :
              StartsWithHttp(u) /\ u.netloc = start_url'.netloc
    /\ pc = "links" /\ pc' = "sleep" /\ BelowMaxDepth =>
          \A u \in Range(pages_by_depth'[current_depth + 1]) \
                   Range(pages_by_depth[current_depth + 1]) :
              StartsWithHttp(u) /\ u.netloc = page_url.netloc

C25_SameAuthority == [][C25_LinkStep]_vars

\* the links of the start page have been processed and a page of the
\* site was enqueued at level 1; nothing else is in the frontier
C25_Witness ==
    /\ pc = "sleep"
    /\ depth >= 1
    /\ pages_by_depth[1] # << >>
    /\ visited_urls = FrontierUrls
    /\ Cardinality(visited_urls) >= 2

\* the three ways a crawl returns: the break of line 134, the depth loop
\* running out (line 194), the return of line 188
EndsByEmptyFrontier == pc = "depth" /\ current_depth <= depth /\ CurrentPages = << >>

EndsByDepthLimit == pc = "depth" /\ current_depth > depth

EndsByCap == pc = "sleep" /\ CapReached

\* C26: a crawl over a finite site ends, every call it makes coming back:
\* it returns its result, unless a call raised and the error went through
\* crawl (C7).  It returns for exactly one of: the frontier of the next
\* depth is empty, the depth limit was processed, the cap was reached; and
\* each of the three makes it return, the empty frontier without an error.
C26_EndStep ==
    /\ pc # "done" /\ pc' = "done" =>
          Cardinality({ r \in {"empty", "depth", "cap"} :
                          \/ r = "empty" /\ EndsByEmptyFrontier
                          \/ r = "depth" /\ EndsByDepthLimit
                          \/ r = "cap" /\ EndsByCap }) = 1
    /\ EndsByEmptyFrontier \/ EndsByDepthLimit \/ EndsByCap => pc' = "done"

C30_EnqueueStep ==
    /\ pages_by_depth' # pages_by_depth \/ visited_urls' # visited_urls =>
          /\ FrontierUrls' \subseteq visited_urls'
          /\ \A d, e \in Levels' :
                d # e => Range(pages_by_depth'[d]) \cap Range(pages_by_depth'[e]) = {}
    /\ pc = "links" /\ pc' = "sleep" /\ BelowMaxDepth =>
          LET before == pages_by_depth[current_depth + 1]
              after == pages_by_depth'[current_depth + 1]
              appended == SubSeq(after, Len(before) + 1, Len(after))
          IN  /\ after = before \o appended
              /\ Range(appended) \cap visited_urls = {}
              /\ Range(appended) \cap FrontierUrls = {}
              /\ visited_urls' = visited_urls \cup Range(appended)
              /\ links_skipped' \cap Range(appended) = {}

C30_VisitedNotEnqueued == [][C30_EnqueueStep]_vars

\* the start page had enqueued two pages at level 1; the first of them
\* links to the second and to the start page, and enqueued neither
C30_Witness ==
    /\ pc = "sleep"
    /\ current_depth = 1
    /\ page_i = 1
    /\ Len(pages_by_depth[1]) = 2
    /\ links_skipped = { start_url, pages_by_depth[1][2] }
    /\ pages_by_depth[2] = << >>

\* C31: once crawl has passed lines 117-123, the depth-0 frontier holds one
\* URL, which is the start URL as passed when that began with http:// or
\* https://, and https:// followed by the start URL as passed otherwise; that
\* URL is marked visited, it is the first URL fetched, and the start URL as
\* passed is neither in the frontier nor visited unless it is that URL.
C31_StartNormalized ==
    pc \notin {"crawl", "idle"} =>
        LET used == IF start_arg.scheme \in {"http", "https"}
                    THEN start_arg
                    ELSE Url("https", start_arg.netloc, start_arg.path)
        IN  /\ start_url = used
            /\ pages_by_depth[0] = << used >>
            /\ used \in visited_urls
            /\ fetch_order # << >> => fetch_order[1] = used
            /\ start_arg # used => start_arg \notin visited_urls \cup FrontierUrls

\* the start URL was passed without a scheme, and the page at https:// plus
\* that URL has been fetched and has answered
C31_Witness ==
    /\ start_arg = Url("", Host, 1)
    /\ pc = "fetched"
    /\ html_content = "text"
    /\ fetch_order = << Url("https", Host, 1) >>
    /\ pages_by_depth[0] = << Url("https", Host, 1) >>

\* the URLs whose download_image call has saved a file and returned its path
SavedCalls == { k \in DOMAIN call_state : call_state[k] = "ok" }

\* C32: once download_images has returned and crawl has extended
\* downloaded_images with its result, every file that a download_image call
\* of the batches saved is the path of exactly one entry of
\* downloaded_images, and every entry is the path of such a file.
C32_FilesAreResults ==
    dl_pc = "returned" =>
        /\ \A k \in SavedCalls :
              Cardinality({ n \in DOMAIN downloaded_images :
                              downloaded_images[n] = k }) = 1
        /\ Range(downloaded_images) \subseteq SavedCalls

(***************************************************************************)
(* SpecAsset: download_image called as crawl calls it, for a URL that      *)
(* _extract_images returned under self.formats, with self.formats as its   *)
(* formats argument (lines 149-164, 509-529).                              *)
(***************************************************************************)
\* s.endswith(suffix)
EndsWith(s, suffix) ==
    Len(s) >= Len(suffix) /\ SubSeq(s, Len(s) - Len(suffix) + 1, Len(s)) = suffix

\* the lists of _is_likely_image_url (lines 296-299, 303-305, 309, 313)
NonImageSuffixes == {".js", ".css", ".woff", ".woff2", ".ttf", ".eot", ".svg",
                     ".html", ".htm", ".php", ".pdf", ".xml", ".json"}
ImageSuffixes == {".jpg", ".jpeg", ".png", ".gif", ".webp", ".bmp", ".tiff", ".ico"}
ImagePathPatterns == {"/images/", "/img/", "/photos/", "/thumbnails/", "image_", "picture"}
image_domains == {"img.", "image.", "images.", "assets.", "static.", "cdn.", "media."}

\* _is_likely_image_url (lines 282-321)
IsLikelyImageUrl(u) ==
    LET path == Lower(u.path)
    IN  IF \E ext \in NonImageSuffixes : EndsWith(path, ext) THEN FALSE
        ELSE IF \E ext \in ImageSuffixes : EndsWith(path, ext) THEN TRUE
        ELSE IF \E pattern \in ImagePathPatterns : Contains(path, pattern) THEN TRUE
        ELSE IF \E domain \in image_domains : Contains(u.netloc, domain) THEN TRUE
        ELSE /\ Contains(u.netloc, "contentstack.io")
             /\ \E ext \in {"jpg", "jpeg", "png", "gif"} : Contains(path, ext)

\* lines 447-459: the URLs of a page that _extract_images returns, of
\* those found in the page's markup
FilteredUrls(found, formats) ==
    LET pre_filtered_urls == { u \in found : IsLikelyImageUrl(u) }
    IN  IF formats # << >>
        THEN { u \in pre_filtered_urls : GetExtensionFromUrl(u) \in Range(formats) }
        ELSE pre_filtered_urls

\* lines 149-164, 509-529: crawl hands a URL of page_images to
\* download_images with self.formats, which calls download_image(url, formats)
DIDispatched ==
    /\ image_call.pc = "idle"
    /\ results = << >>
    /\ \E formats \in FormatFilters :
          \E u \in FilteredUrls(AssetUrls, formats) : image_call' = NewCall(u, formats)
    /\ sleeps' = << >>
    /\ body_requests' = 0
    /\ UNCHANGED << crawlVars, fileVars, dlVars, save_dir, results >>

NextAsset ==
    \/ DIDispatched
    \/ DIProbe
    \/ DICheck
    \/ DIProbeError
    \/ DIBody
    \/ DIBodyError
    \/ DIExists
    \/ DIOpen
    \/ DIWrite
    \/ DIWriteError

SpecAsset == InitImage /\ [][NextAsset]_vars

\* C33: with a format filter, a URL that is dispatched has a URL-derived
\* extension (jpg when the URL has no recognized one) that is in the filter;
\* no dispatched URL whose probe answered with an image type is rejected by
\* the format check; and every file that is saved has the URL-derived
\* extension as its extension.  (Stated as the claim states it; the code
\* violates the last part.)
C33_FilteredByUrlExtension ==
    image_call.pc # "idle" /\ image_call.formats # << >> =>
        /\ GetExtensionFromUrl(image_call.url) \in Range(image_call.formats)
        /\ image_call.pc = "check" /\ StartsWith(image_call.content_type, "image/") =>
              ProbeAccepts(image_call.url, image_call.formats, image_call.content_type)
        /\ image_call.pc = "write" =>
              Splitext(image_call.save_path)[2] = "." \o GetExtensionFromUrl(image_call.url)

\* C34: when crawl returns without the cap being reached, every asset URL
\* in image_urls has been handed to download_images, the candidates that
\* the per-page limit cut off included.  (Stated as the claim states it; the
\* code violates it.)
C34_FoundAreDispatched ==
    pc = "done" /\ ~CapReached =>
        \A img \in image_urls : dispatch_count[img] >= 1

\* C35: from the start of the crawl's depth loop on, visited_urls is the
\* start URL together with the URLs of every level of the frontier: a URL is
\* visited exactly if it was enqueued, whether or not it was fetched.
C35_VisitedIsEnqueued ==
    pc \notin {"crawl", "idle"} =>
        visited_urls = { start_url } \cup FrontierUrls

\* the crawl returned at the cap; a page it had enqueued and marked visited
\* was never fetched
C35_Witness ==
    /\ pc = "done"
    /\ CapReached
    /\ \E u \in visited_urls : fetch_calls[u] = 0 /\ u \in Range(pages_by_depth[1])

\* C36: a file is opened for, and written from, a body response whose
\* declared content type is an image type.  (Stated as the claim states it;
\* the code violates it.)
C36_BodyTypeChecked ==
    image_call.pc \in {"open", "write"} =>
        StartsWith(image_call.content_type, "image/")

\* C37: every pause that download_images makes between two batches, the
\* one after a batch of less than 30% success included, is at least as long
\* as the pause after a batch with a success rate of 30% or more.  (Stated
\* as the claim states it; the code violates it.)
C37_ThrottleWidens ==
    \A n \in DOMAIN pauses :
        \A ok \in 0..BatchCap :
            ok * LowRateDen >= LowRateNum * BatchCap =>
                pauses[n] >= Pause(ok, BatchCap)

====
